---- MODULE Spec2Model ----
(***************************************************************************)
(* A model of local-jcs-store (src/src/lib.rs): a content-addressed store  *)
(* of JSON documents.  A document is serialised with JCS (RFC 8785), the   *)
(* SHA-256 of the serialisation, in base64 with '/' replaced by '+', is    *)
(* its address, and the serialisation is kept in the file of that name in  *)
(* the database directory.                                                 *)
(*                                                                         *)
(* Text is modelled at the granularity of lexical units: a "byte" of the   *)
(* model is one unit of JSON text (a brace, a quoted key, a digit, ...),   *)
(* the NUL byte a hole in a file reads as, or a byte that is no UTF-8.     *)
(***************************************************************************)
EXTENDS Integers, Sequences, FiniteSets, TLC

\* ------------------------------------------------------------------ bytes

LBrace == "{"
RBrace == "}"
Colon  == ":"
Comma  == ","
Space  == " "
KeyA   == "\"a\""
KeyB   == "\"b\""
NUL    == "\\0"
BadUtf == "\\xFF"

Keys   == {KeyA, KeyB}
Digits == {"1", "2"}
Bytes  == {LBrace, RBrace, Colon, Comma, Space, NUL, BadUtf} \cup Keys \cup Digits

\* ------------------------------------------------- serde_json::Value

\* A number, or an object whose members (key, number) are kept in the order
\* of the map (insertion order with serde_json's preserve_order, key order
\* without); the keys of an object are distinct.
\* (Here and below a record's fields are written in the order in which their
\* names first occur in the module, which is the order TLC sorts them into:
\* a record shared by two workers is then never reordered while it is read.)
Num(n) == [n |-> n, t |-> "num", m |-> <<>>]
Obj(m) == [n |-> "", t |-> "obj", m |-> m]

\* Value's PartialEq: numbers by value, objects as maps (member order is not
\* part of an object's value).
AsMap(m) == {<<m[i][1], m[i][2]>> : i \in 1..Len(m)}
ValueEq(v, w) ==
    /\ v.t = w.t
    /\ v.t = "num" => v.n = w.n
    /\ v.t = "obj" => AsMap(v.m) = AsMap(w.m)

\* ------------------------------------------------- serde_jcs::to_vec

\* Code-point order of the keys.
KeyRank(k) == IF k = KeyA THEN 1 ELSE 2

RECURSIVE SortMembers(_)
SortMembers(m) ==
    IF m = <<>> THEN <<>>
    ELSE LET i == CHOOSE i \in 1..Len(m) :
                     \A j \in 1..Len(m) : KeyRank(m[i][1]) <= KeyRank(m[j][1])
             rest == [k \in 1..(Len(m) - 1) |-> IF k < i THEN m[k] ELSE m[k + 1]]
         IN  <<m[i]>> \o SortMembers(rest)

RECURSIVE WriteMembers(_)
WriteMembers(m) ==
    IF m = <<>> THEN <<>>
    ELSE <<m[1][1], Colon, m[1][2]>>
         \o (IF Len(m) > 1 THEN <<Comma>> ELSE <<>>)
         \o WriteMembers(Tail(m))

\* A serialisation that keeps the members in the order of the map.
to_jcs_unsorted(v) ==
    IF v.t = "num" THEN <<v.n>>
    ELSE <<LBrace>> \o WriteMembers(v.m) \o <<RBrace>>

\* The canonical serialisation: members sorted by key, no whitespace.
to_jcs(v) ==
    IF v.t = "num" THEN <<v.n>>
    ELSE <<LBrace>> \o WriteMembers(SortMembers(v.m)) \o <<RBrace>>

\* ------------------------------------------------- serde_json::from_str

NoValue == [n |-> "", t |-> "none", m |-> <<>>]

\* A Result: Ok with the Item or the Value it carries, or an error of a kind.
\* eyre's Report is one type for all errors; the kind is the error wrapped:
\*   NotFound     io::ErrorKind::NotFound from fs::read
\*   Io           another io::Error
\*   Utf8         FromUtf8Error
\*   InvalidHash  eyre!("Invalid Hash")
\*   Parse        serde_json::Error
Err(kind) == [kind |-> kind, ok |-> FALSE, item |-> [hash_b64 |-> <<>>, json_utf8 |-> <<>>], value |-> NoValue]
OkUnit == [kind |-> "Ok", ok |-> TRUE, item |-> [hash_b64 |-> <<>>, json_utf8 |-> <<>>], value |-> NoValue]
OkItem(item) == [kind |-> "Ok", ok |-> TRUE, item |-> item, value |-> NoValue]
OkValue(v) == [kind |-> "Ok", ok |-> TRUE, item |-> [hash_b64 |-> <<>>, json_utf8 |-> <<>>], value |-> v]

SelectBytes(s, keep) == SelectSeq(s, LAMBDA b : b \in keep)

\* Insert into the map being parsed: a repeated key keeps its place and takes
\* the later value.
Insert(m, k, x) ==
    IF \E i \in 1..Len(m) : m[i][1] = k
    THEN [i \in 1..Len(m) |-> IF m[i][1] = k THEN <<k, x>> ELSE m[i]]
    ELSE Append(m, <<k, x>>)

\* The members between the braces: key ':' number, separated by ','.
RECURSIVE ParseMembers(_, _)
ParseMembers(s, acc) ==
    IF Len(s) < 3 \/ s[1] \notin Keys \/ s[2] # Colon \/ s[3] \notin Digits
    THEN [m |-> <<>>, ok |-> FALSE]
    ELSE LET next == Insert(acc, s[1], s[3])
         IN  IF Len(s) = 3 THEN [m |-> next, ok |-> TRUE]
             ELSE IF s[4] # Comma THEN [m |-> <<>>, ok |-> FALSE]
             ELSE ParseMembers(SubSeq(s, 5, Len(s)), next)

\* Parses a text: whitespace between the lexical units is skipped.
from_str(text) ==
    LET s == SelectBytes(text, Bytes \ {Space})
    IN  IF Len(s) = 1 /\ s[1] \in Digits THEN OkValue(Num(s[1]))
        ELSE IF Len(s) >= 2 /\ s[1] = LBrace /\ s[Len(s)] = RBrace
        THEN IF Len(s) = 2 THEN OkValue(Obj(<<>>))
             ELSE LET r == ParseMembers(SubSeq(s, 2, Len(s) - 1), <<>>)
                  IN  IF r.ok THEN OkValue(Obj(r.m)) ELSE Err("Parse")
        ELSE Err("Parse")

\* ------------------------------------------------------------ b64sha256

\* SHA-256 is modelled as an ideal hash: a digest is a sequence of sextets,
\* one per byte hashed, so that distinct inputs have distinct digests, also
\* after the encoding below.  No digest holds the sextet 62 ('+'); the
\* digests of objects hold 63 ('/').
Sextet(b) ==
    CASE b = LBrace -> 0
      [] b = RBrace -> 1
      [] b = Comma  -> 2
      [] b = Space  -> 3
      [] b = KeyA   -> 26
      [] b = KeyB   -> 27
      [] b = "1"    -> 53
      [] b = "2"    -> 54
      [] b = NUL    -> 60
      [] b = BadUtf -> 61
      [] b = Colon  -> 63

Sha256(bytes) == [i \in 1..Len(bytes) |-> Sextet(bytes[i])]

\* The characters of standard base64 these digests use, by sextet.
Base64Char(x) ==
    CASE x = 0  -> "A"
      [] x = 1  -> "B"
      [] x = 2  -> "C"
      [] x = 3  -> "D"
      [] x = 26 -> "a"
      [] x = 27 -> "b"
      [] x = 53 -> "1"
      [] x = 54 -> "2"
      [] x = 60 -> "8"
      [] x = 61 -> "9"
      [] x = 62 -> "+"
      [] x = 63 -> "/"

\* openssl::base64::encode_block: standard alphabet, padded with '='.
encode_block(digest) == [i \in 1..Len(digest) |-> Base64Char(digest[i])] \o <<"=">>

\* str::replace(from, to)
replace(s, from, to) == [i \in 1..Len(s) |-> IF s[i] = from THEN to ELSE s[i]]

b64sha256(bytes) == replace(encode_block(Sha256(bytes)), "/", "+")

\* ------------------------------------------------------------------ Item

Item(hash_b64, json_utf8) == [hash_b64 |-> hash_b64, json_utf8 |-> json_utf8]
NoItem == Item(<<>>, <<>>)

\* String::from_utf8's test.
IsUtf8(bytes) == \A i \in 1..Len(bytes) : bytes[i] # BadUtf

mk_item(obj) ==
    LET json_utf8 == to_jcs(obj)
    IN  Item(b64sha256(json_utf8), json_utf8)

\* A check that accepts every Item.
check_hash_skipped(item) == TRUE

check_hash(item) == item.hash_b64 = b64sha256(item.json_utf8)

\* A conversion that parses without the check.
try_from_unchecked(item) == from_str(item.json_utf8)

\* impl TryFrom<Item> for Value
try_from(item) ==
    IF ~check_hash(item) THEN Err("InvalidHash") ELSE from_str(item.json_utf8)

\* ------------------------------------------------------------ file system

\* A path is the sequence of its components; PathBuf::join splits the name
\* joined at its '/' characters, and a name that starts with '/' replaces
\* the base.
RECURSIVE Components(_, _)
Components(name, cur) ==
    LET done == IF cur = <<>> THEN <<>> ELSE <<cur>>
    IN  IF name = <<>> THEN done
        ELSE IF Head(name) = "/" THEN done \o Components(Tail(name), <<>>)
        ELSE Components(Tail(name), Append(cur, Head(name)))

FsRoot == << <<"/">> >>
join(base, name) ==
    IF name # <<>> /\ Head(name) = "/" THEN FsRoot \o Components(name, <<>>)
    ELSE base \o Components(name, <<>>)

Dir == [kind |-> "dir", data |-> <<>>]
File(data) == [kind |-> "file", data |-> data]

Parent(path) == SubSeq(path, 1, Len(path) - 1)

\* The directory the Database was opened on.
DbPath == FsRoot \o << <<"d", "b">> >>

\* ----------------------------------------------------------------- bounds

\* Calls made, over all callers.
MaxCalls == 2
\* Changes made to the directory from outside the store, and interruptions
\* of the store's calls.
MaxOob == 1
\* The bytes one write of the blocking task puts in the file.
ChunkLen == 3

\* ----------------------------------------------------------------- inputs

Callers == {"c1", "c2"}

AB == Obj(<< <<KeyA, "1">>, <<KeyB, "2">> >>)
BA == Obj(<< <<KeyB, "2">>, <<KeyA, "1">> >>)
One == Num("1")

\* The documents stored.
Values == {One, AB, BA}

\* Items a caller builds itself (the fields of Item are public): the address
\* of 1 over other bytes, and a text that is no JSON under its own address.
WrongItem   == Item(b64sha256(<<"1">>), <<"2">>)
NonJsonItem == Item(b64sha256(<<RBrace>>), <<RBrace>>)
RawItems    == {WrongItem, NonJsonItem}

\* An Item a caller builds whose address is an absolute path.
EscapeItem  == Item(<<"/", "x">>, <<"1">>)

\* A file put in the database directory from outside: bytes that are no
\* UTF-8, under the name that is their hash.
PlantedItem == Item(b64sha256(<<BadUtf>>), <<BadUtf>>)

\* The addresses asked for: those of the items above, and one never stored.
Addresses ==
    {mk_item(v).hash_b64 : v \in Values} \cup {i.hash_b64 : i \in RawItems}
        \cup {b64sha256(<<"2">>)}

\* The paths Database::open is called on: the database directory, a path
\* that is absent with its parent, a regular file, and a path under it.
DbName    == <<"/", "d", "b">>
NewName   == <<"/", "n", "/", "d">>
FileName  == <<"/", "f">>
UnderName == <<"/", "f", "/", "d">>
OpenNames == {DbName, NewName, FileName, UnderName}

\* The bytes an out-of-band change writes over a byte of a file.
FlipBytes == {Space, BadUtf}

\* ------------------------------------------------------------------ state

VARIABLES
    fs,        \* the file system: path -> Dir or File(data)
    inflight,  \* writes handed to the blocking pool: [path, buf, pos]
    pc,        \* per caller: "idle", or the step of put_item it is before
    cur,       \* per caller: the call in progress
    last,      \* per caller: the last call that returned, with its result
    calls,     \* per caller: the calls that returned
    touched,   \* per caller: an out-of-band change since its last call began
    oob        \* the out-of-band changes and the interruptions made

vars == <<fs, inflight, pc, cur, last, calls, touched, oob>>

\* A call: the operation, its arguments, whether put_item found the file,
\* whether the file it created was deleted under it, and the result.
Call(op, value, item, addr) ==
    [item |-> item, value |-> value, op |-> op, addr |-> addr,
     existed |-> FALSE, unlinked |-> FALSE, res |-> OkUnit]
NoCall == Call("none", NoValue, NoItem, <<>>)

Exists(path) == path \in DOMAIN fs
IsFile(path) == Exists(path) /\ fs[path].kind = "file"
IsDir(path)  == Exists(path) /\ fs[path].kind = "dir"

Init ==
    /\ fs = [p \in {FsRoot, DbPath, join(FsRoot, FileName)} |->
                IF p = join(FsRoot, FileName) THEN File(<<>>) ELSE Dir]
    /\ inflight = <<>>
    /\ pc = [c \in Callers |-> "idle"]
    /\ cur = [c \in Callers |-> NoCall]
    /\ last = [c \in Callers |-> NoCall]
    /\ calls = [c \in Callers |-> 0]
    /\ touched = [c \in Callers |-> FALSE]
    /\ oob = 0

\* The calls made so far: those that returned and those in progress.
RECURSIVE Sum(_, _)
Sum(f, S) == IF S = {} THEN 0 ELSE LET x == CHOOSE x \in S : TRUE IN f[x] + Sum(f, S \ {x})
Started == Sum(calls, Callers) + Cardinality({c \in Callers : pc[c] # "idle"})

\* The call of c returns res.
Return(c, call, res) ==
    /\ last' = [last EXCEPT ![c] = [call EXCEPT !.res = res]]
    /\ calls' = [calls EXCEPT ![c] = @ + 1]
    /\ cur' = [cur EXCEPT ![c] = NoCall]
    /\ pc' = [pc EXCEPT ![c] = "idle"]

\* A put_obj that returns the Item it found stored.
PutResultStored(call) ==
    IF call.op # "put_obj" THEN OkUnit
    ELSE IF call.existed /\ IsFile(join(DbPath, call.addr))
    THEN OkItem(Item(call.addr, fs[join(DbPath, call.addr)].data))
    ELSE OkItem(call.item)

\* What put_item and put_obj return when put_item succeeds.
PutResult(call) == IF call.op = "put_obj" THEN OkItem(call.item) ELSE OkUnit

\* An existence test that never finds the file.
try_exists_never(path) == FALSE

\* try_exists of put_item.
try_exists(path) == Exists(path)

\* put_item up to its try_exists: if the file exists the call returns.
PutEnter(c, call) ==
    /\ pc[c] = "idle"
    /\ Started < MaxCalls
    /\ touched' = [touched EXCEPT ![c] = FALSE]
    /\ LET item_path == join(DbPath, call.item.hash_b64)
       IN  IF try_exists(item_path)
           THEN /\ LET found == [call EXCEPT !.existed = TRUE]
                   IN  Return(c, found, PutResult(found))
                /\ UNCHANGED <<fs, inflight, oob>>
           ELSE /\ pc' = [pc EXCEPT ![c] = "create"]
                /\ cur' = [cur EXCEPT ![c] = call]
                /\ UNCHANGED <<fs, inflight, last, calls, oob>>

put_item(c, item) == PutEnter(c, Call("put_item", NoValue, item, item.hash_b64))

put_obj(c, object) ==
    LET item == mk_item(object)
    IN  PutEnter(c, Call("put_obj", object, item, item.hash_b64))

\* fs::File::create: creates the file, or truncates the one there.
create(c) ==
    /\ pc[c] = "create"
    /\ LET item_path == join(DbPath, cur[c].item.hash_b64)
       IN  IF IsDir(Parent(item_path)) /\ ~IsDir(item_path)
           THEN /\ fs' = [p \in DOMAIN fs \cup {item_path} |->
                             IF p = item_path THEN File(<<>>) ELSE fs[p]]
                /\ pc' = [pc EXCEPT ![c] = "write"]
                /\ UNCHANGED <<inflight, cur, last, calls, touched, oob>>
           ELSE /\ Return(c, cur[c], Err("Io"))
                /\ UNCHANGED <<fs, inflight, touched, oob>>

\* write_all on a tokio File: the bytes are copied to the file's buffer, a
\* task of the blocking pool is spawned to write them at the file's position,
\* and the write is reported done.  put_item does not flush: it drops the
\* File and returns while the task may not have run.
write_all(c) ==
    /\ pc[c] = "write"
    /\ LET item_path == join(DbPath, cur[c].item.hash_b64)
           buf == cur[c].item.json_utf8
       IN  inflight' = IF buf = <<>> \/ cur[c].unlinked THEN inflight
                       ELSE Append(inflight, [path |-> item_path, buf |-> buf, pos |-> 0])
    /\ Return(c, cur[c], PutResult(cur[c]))
    /\ UNCHANGED <<fs, touched, oob>>

Remove(s, i) == [k \in 1..(Len(s) - 1) |-> IF k < i THEN s[k] ELSE s[k + 1]]

Min(a, b) == IF a < b THEN a ELSE b
Max(a, b) == IF a < b THEN b ELSE a

\* A write of the bytes at position pos (from 0) of a file: past the end,
\* the gap reads as NUL bytes.
WriteAt(data, pos, bytes) ==
    [k \in 1..Max(Len(data), pos + Len(bytes)) |->
        IF k > pos /\ k <= pos + Len(bytes) THEN bytes[k - pos]
        ELSE IF k <= Len(data) THEN data[k] ELSE NUL]

\* The blocking task of a write_all writes the next bytes of its buffer
\* (std's write_all: one write, or several short ones).
land(i) ==
    /\ i \in 1..Len(inflight)
    /\ LET w == inflight[i]
           end == Min(w.pos + ChunkLen, Len(w.buf))
       IN  /\ fs' = [fs EXCEPT ![w.path] =
                        File(WriteAt(@.data, w.pos, SubSeq(w.buf, w.pos + 1, end)))]
           /\ inflight' = IF end = Len(w.buf) THEN Remove(inflight, i)
                          ELSE [inflight EXCEPT ![i].pos = end]
    /\ UNCHANGED <<pc, cur, last, calls, touched, oob>>

\* A get_item that reads a missing file as an empty one.
get_item_result_missing_as_empty(hash_b64) ==
    LET path == join(DbPath, hash_b64)
        data == IF IsFile(path) THEN fs[path].data ELSE <<>>
    IN  IF ~IsUtf8(data) THEN Err("Utf8")
        ELSE IF check_hash(Item(hash_b64, data)) THEN OkItem(Item(hash_b64, data))
        ELSE Err("InvalidHash")

\* The path and the paths above it.
Prefixes(path) == {SubSeq(path, 1, k) : k \in 1..Len(path)}

\* A path under a regular file: looking it up fails (not a directory).
UnderFile(path) == \E p \in Prefixes(path) : p # path /\ IsFile(p)

\* fs::create_dir, which makes the last component only: the file system
\* after it (unchanged when it fails).
create_dir(path) ==
    IF ~IsDir(Parent(path)) \/ Exists(path) THEN fs
    ELSE [p \in DOMAIN fs \cup {path} |-> IF p \in DOMAIN fs THEN fs[p] ELSE Dir]

\* fs::create_dir_all: the file system after it, with every missing
\* directory of the path made (unchanged when it fails).
create_dir_all(path) ==
    IF \E p \in Prefixes(path) : IsFile(p) THEN fs
    ELSE [p \in DOMAIN fs \cup Prefixes(path) |-> IF p \in DOMAIN fs THEN fs[p] ELSE Dir]

\* A test that takes whatever is at the path for a directory.
is_dir_unchecked(f, path) == TRUE

\* Path::is_dir in the file system f.
is_dir(f, path) == path \in DOMAIN f /\ f[path].kind = "dir"

\* Database::open: the file system it leaves, and its result.  try_exists
\* fails on a path under a regular file, and `?` returns that error.
open_fs(path) ==
    IF ~UnderFile(path) /\ ~try_exists(path) THEN create_dir_all(path) ELSE fs

open_result(path) ==
    IF UnderFile(path) THEN Err("Io")
    ELSE IF is_dir(open_fs(path), path) THEN OkUnit
    ELSE Err("PathConflict")

open(c, name) ==
    /\ pc[c] = "idle"
    /\ Started < MaxCalls
    /\ touched' = [touched EXCEPT ![c] = FALSE]
    /\ LET path == join(FsRoot, name)
       IN  /\ fs' = open_fs(path)
           /\ Return(c, Call("open", NoValue, NoItem, name), open_result(path))
    /\ UNCHANGED <<inflight, oob>>

\* fs::read, String::from_utf8 and check_hash of get_item.
get_item_result(hash_b64) ==
    LET path == join(DbPath, hash_b64)
    IN  IF ~Exists(path) THEN Err("NotFound")
        ELSE IF ~IsFile(path) THEN Err("Io")
        ELSE IF ~IsUtf8(fs[path].data) THEN Err("Utf8")
        ELSE LET item == Item(hash_b64, fs[path].data)
             IN  IF check_hash(item) THEN OkItem(item) ELSE Err("InvalidHash")

\* A get_obj that parses the bytes before the hash is checked.
get_obj_result_parse_first(hash_b64) ==
    LET path == join(DbPath, hash_b64)
    IN  IF IsFile(path) /\ IsUtf8(fs[path].data) /\ ~from_str(fs[path].data).ok
        THEN Err("Parse")
        ELSE LET r == get_item_result(hash_b64)
             IN  IF r.ok THEN from_str(r.item.json_utf8) ELSE r

get_obj_result(hash_b64) ==
    LET r == get_item_result(hash_b64)
    IN  IF r.ok THEN from_str(r.item.json_utf8) ELSE r

\* A read that removes the file it finds corrupt.
GetHealing(c, call, res) ==
    /\ pc[c] = "idle"
    /\ Started < MaxCalls
    /\ touched' = [touched EXCEPT ![c] = FALSE]
    /\ Return(c, call, res)
    /\ LET path == join(DbPath, call.addr)
       IN  fs' = IF call.op \in {"get_item", "get_obj"} /\ res.kind = "InvalidHash"
                 THEN [p \in DOMAIN fs \ {path} |-> fs[p]]
                 ELSE fs
    /\ UNCHANGED <<inflight, oob>>

Get(c, call, res) ==
    /\ pc[c] = "idle"
    /\ Started < MaxCalls
    /\ touched' = [touched EXCEPT ![c] = FALSE]
    /\ Return(c, call, res)
    /\ UNCHANGED <<fs, inflight, oob>>

get_item(c, hash_b64) ==
    Get(c, Call("get_item", NoValue, NoItem, hash_b64), get_item_result(hash_b64))

get_obj(c, hash_b64) ==
    Get(c, Call("get_obj", NoValue, NoItem, hash_b64), get_obj_result(hash_b64))

\* Value::try_from(item)
item_into_value(c, item) ==
    Get(c, Call("try_from", NoValue, item, item.hash_b64), try_from(item))

\* Out of band: one byte of a file, its first or its last, is overwritten
\* with another.
Flip(path, first, b) ==
    /\ oob < MaxOob
    /\ IsFile(path)
    /\ fs[path].data # <<>>
    /\ LET i == IF first THEN 1 ELSE Len(fs[path].data)
       IN  /\ b # fs[path].data[i]
           /\ fs' = [fs EXCEPT ![path] = File([@.data EXCEPT ![i] = b])]
    /\ oob' = oob + 1
    /\ touched' = [c \in Callers |-> TRUE]
    /\ UNCHANGED <<inflight, pc, cur, last, calls>>

\* Out of band: a file is put in the database directory.
Plant(item) ==
    /\ oob < MaxOob
    /\ ~Exists(join(DbPath, item.hash_b64))
    /\ fs' = [p \in DOMAIN fs \cup {join(DbPath, item.hash_b64)} |->
                 IF p \in DOMAIN fs THEN fs[p] ELSE File(item.json_utf8)]
    /\ oob' = oob + 1
    /\ touched' = [c \in Callers |-> TRUE]
    /\ UNCHANGED <<inflight, pc, cur, last, calls>>

\* Out of band: a file is deleted.  A File open on it, and a write in flight,
\* keep their handle and go on into the unlinked file, which no path names
\* any more.
Delete(path) ==
    /\ oob < MaxOob
    /\ IsFile(path)
    /\ fs' = [p \in DOMAIN fs \ {path} |-> fs[p]]
    /\ inflight' = SelectSeq(inflight, LAMBDA w : w.path # path)
    /\ cur' = [c \in Callers |->
                 IF pc[c] = "write" /\ join(DbPath, cur[c].item.hash_b64) = path
                 THEN [cur[c] EXCEPT !.unlinked = TRUE] ELSE cur[c]]
    /\ oob' = oob + 1
    /\ touched' = [c \in Callers |-> TRUE]
    /\ UNCHANGED <<pc, last, calls>>

\* The future of a put is dropped at one of its awaits: the call goes no
\* further and what it did stays.  It has no result; the model records the
\* call as ended with "Interrupted".
Interrupt(c) ==
    /\ oob < MaxOob
    /\ pc[c] \in {"create", "write"}
    /\ Return(c, cur[c], Err("Interrupted"))
    /\ oob' = oob + 1
    /\ UNCHANGED <<fs, inflight, touched>>

\* The process is killed: every call in progress ends as above and the
\* writes still with the blocking pool are lost, part-way when some of their
\* bytes are in the file.
Kill ==
    /\ oob < MaxOob
    /\ inflight # <<>> \/ \E c \in Callers : pc[c] # "idle"
    /\ last' = [c \in Callers |->
                  IF pc[c] = "idle" THEN last[c]
                  ELSE [cur[c] EXCEPT !.res = Err("Interrupted")]]
    /\ calls' = [c \in Callers |-> IF pc[c] = "idle" THEN calls[c] ELSE calls[c] + 1]
    /\ cur' = [c \in Callers |-> NoCall]
    /\ pc' = [c \in Callers |-> "idle"]
    /\ inflight' = <<>>
    /\ oob' = oob + 1
    /\ UNCHANGED <<fs, touched>>

ItemPaths == {join(DbPath, a) : a \in Addresses}

\* The calls on the open database, and the out-of-band changes of its
\* directory.
Next ==
    \/ \E c \in Callers, v \in Values : put_obj(c, v)
    \/ \E c \in Callers, item \in RawItems : put_item(c, item)
    \/ \E c \in Callers : create(c)
    \/ \E c \in Callers : write_all(c)
    \/ \E i \in 1..Len(inflight) : land(i)
    \/ \E c \in Callers, a \in Addresses : get_item(c, a)
    \/ \E c \in Callers, a \in Addresses : get_obj(c, a)
    \/ \E c \in Callers, item \in RawItems \cup {mk_item(v) : v \in Values} :
           item_into_value(c, item)
    \/ \E path \in ItemPaths, first \in BOOLEAN, b \in FlipBytes : Flip(path, first, b)
    \/ \E path \in ItemPaths : Delete(path)

\* The puts and the reads, beside files that are altered or put in the
\* directory out of band.
NextRead ==
    \/ \E c \in Callers, v \in Values : put_obj(c, v)
    \/ \E c \in Callers, item \in RawItems : put_item(c, item)
    \/ \E c \in Callers : create(c)
    \/ \E c \in Callers : write_all(c)
    \/ \E i \in 1..Len(inflight) : land(i)
    \/ \E c \in Callers, a \in Addresses \cup {PlantedItem.hash_b64} : get_item(c, a)
    \/ \E c \in Callers, a \in Addresses \cup {PlantedItem.hash_b64} : get_obj(c, a)
    \/ \E path \in ItemPaths, first \in BOOLEAN, b \in FlipBytes : Flip(path, first, b)
    \/ Plant(PlantedItem)

\* Database::open beside the puts on the open database.
NextOpen ==
    \/ \E c \in Callers, name \in OpenNames : open(c, name)
    \/ \E c \in Callers, v \in Values : put_obj(c, v)
    \/ \E c \in Callers : create(c)
    \/ \E c \in Callers : write_all(c)
    \/ \E i \in 1..Len(inflight) : land(i)

\* All of the above, with interrupted calls and with Items and addresses
\* that are paths.
NextAll ==
    \/ Next
    \/ \E c \in Callers, name \in OpenNames : open(c, name)
    \/ Plant(PlantedItem)
    \/ \E c \in Callers : get_item(c, PlantedItem.hash_b64)
    \/ \E c \in Callers : get_obj(c, PlantedItem.hash_b64)
    \/ \E c \in Callers : put_item(c, EscapeItem)
    \/ \E c \in Callers : get_item(c, EscapeItem.hash_b64)
    \/ \E c \in Callers : get_obj(c, EscapeItem.hash_b64)
    \/ \E c \in Callers : Interrupt(c)
    \/ Kill

Spec == Init /\ [][Next]_vars
SpecRead == Init /\ [][NextRead]_vars
SpecOpen == Init /\ [][NextOpen]_vars
SpecAll == Init /\ [][NextAll]_vars

\* ----------------------------------------------------------------- claims

PathOf(a) == join(DbPath, a)
AddressOf(v) == mk_item(v).hash_b64

\* c returns from a call in this step.
Returns(c) == calls'[c] = calls[c] + 1
GetReturns(c) == Returns(c) /\ last'[c].op \in {"get_item", "get_obj"}
PutReturns(c) == Returns(c) /\ last'[c].op \in {"put_item", "put_obj"}
IsPut(call) == call.op \in {"put_item", "put_obj"}

\* Nothing changed the directory out of band since the call last[c] began.
Untouched(c) == pc[c] = "idle" /\ ~touched[c]

\* C1 (as claimed): when put_obj(v) returned an Item to a caller and nothing
\* changed the directory out of band since, the caller's following
\* get_obj(item.hash_b64) returns a value equal to v.
C1_RoundTrip ==
    [][\A c \in Callers :
          ( /\ Returns(c)
            /\ last'[c].op = "get_obj"
            /\ last[c].op = "put_obj"
            /\ last[c].res.ok
            /\ last'[c].addr = last[c].res.item.hash_b64
            /\ ~touched[c] )
          => /\ last'[c].res.ok
             /\ ValueEq(last'[c].res.value, last[c].value)]_vars

\* The file at address a holds the bytes of a valid entry but for one byte.
Altered(a) ==
    /\ IsFile(PathOf(a))
    /\ LET data == fs[PathOf(a)].data
       IN  \E i \in 1..Len(data), b \in Bytes :
              b # data[i] /\ b64sha256([data EXCEPT ![i] = b]) = a

C3_EntryValidity ==
    [][\A c \in Callers :
          (Returns(c) /\ last'[c].res.ok) =>
             LET call == last'[c]
                 path == PathOf(call.addr)
             IN  /\ call.op = "get_item" =>
                       /\ call.res.item.hash_b64 = call.addr
                       /\ call.res.item.hash_b64 = b64sha256(call.res.item.json_utf8)
                       /\ IsFile(path) /\ call.res.item.json_utf8 = fs[path].data
                 /\ call.op = "get_obj" =>
                       /\ IsFile(path) /\ call.addr = b64sha256(fs[path].data)
                       /\ from_str(fs[path].data) = OkValue(call.res.value)
                 /\ call.op = "try_from" =>
                       /\ call.item.hash_b64 = b64sha256(call.item.json_utf8)
                       /\ from_str(call.item.json_utf8) = OkValue(call.res.value)]_vars

\* C3 witness: a get_item returned the Item of the stored object, and the
\* file passed through partly written states before.
C3_Witness ==
    \E c, d \in Callers :
       /\ last[c].op = "get_item" /\ last[c].res.ok
       /\ last[c].res.item = mk_item(AB)
       /\ last[d].op = "put_obj" /\ ~last[d].existed

\* C4: a put_item or put_obj that finds a file at the address returns Ok at
\* once, leaving every file as it is and writing nothing, whatever the file
\* holds; a put goes on to create the file only when none is there; and a
\* caller's second put of an address is such a no-op.
C4_IdempotentPut ==
    [][\A c \in Callers :
          /\ (pc[c] = "idle" /\ PutReturns(c)) =>
                /\ Exists(PathOf(last'[c].addr))
                /\ last'[c].existed /\ last'[c].res.ok
                /\ fs' = fs /\ inflight' = inflight
          /\ (pc[c] = "idle" /\ pc'[c] = "create") =>
                /\ ~Exists(PathOf(cur'[c].addr))
                /\ ~(IsPut(last[c]) /\ last[c].res.ok /\ Untouched(c)
                       /\ last[c].addr = cur'[c].addr)]_vars

\* C4 witness: a caller's second put_obj of a document returned without
\* writing, the first having created the file; the file holds other bytes
\* than the document's.
C4_Witness ==
    \E c \in Callers :
       /\ calls[c] >= 2
       /\ last[c].op = "put_obj" /\ last[c].existed /\ last[c].res.ok
       /\ IsFile(PathOf(last[c].addr))
       /\ fs[PathOf(last[c].addr)].data # last[c].item.json_utf8

\* C5: put_obj of two structurally equal documents returns the same address
\* to both callers, and unless the directory was changed out of band one
\* file, of that name, is there for them.
C5_Deduplication ==
    \A c, d \in Callers :
       ( /\ last[c].op = "put_obj" /\ last[c].res.ok
         /\ last[d].op = "put_obj" /\ last[d].res.ok
         /\ ValueEq(last[c].value, last[d].value) )
       => /\ last[c].res.item.hash_b64 = last[d].res.item.hash_b64
          /\ (Untouched(c) /\ Untouched(d)) =>
                Cardinality({p \in DOMAIN fs :
                               \/ p = PathOf(last[c].res.item.hash_b64)
                               \/ p = PathOf(last[d].res.item.hash_b64)}) = 1

\* C5 witness: the two callers stored the same object with its keys in
\* different orders.
C5_Witness ==
    \E c, d \in Callers :
       /\ last[c].op = "put_obj" /\ last[c].res.ok /\ last[c].value = AB
       /\ last[d].op = "put_obj" /\ last[d].res.ok /\ last[d].value = BA
       /\ Untouched(c) /\ Untouched(d)

\* C6: get_item and get_obj of an address with no file return the NotFound
\* error, which is neither the "Invalid Hash" error nor a value, and change
\* no file.
C6_Miss ==
    [][\A c \in Callers :
          (GetReturns(c) /\ ~Exists(PathOf(last'[c].addr)))
          => /\ ~last'[c].res.ok
             /\ last'[c].res.kind = "NotFound"
             /\ last'[c].res.value = NoValue /\ last'[c].res.item = NoItem
             /\ fs' = fs /\ inflight' = inflight]_vars

\* C6 witness: a get_obj missed a document that was stored and then deleted
\* out of band.
C6_Witness ==
    /\ oob = 1
    /\ \E c, d \in Callers :
          /\ last[c].op = "get_obj" /\ last[c].res.kind = "NotFound" /\ Untouched(c)
          /\ last[d].op = "put_obj" /\ last[d].res.ok /\ touched[d]
          /\ last[d].addr = last[c].addr

\* C7 (as claimed): once two callers' put_obj of the same document have both
\* returned, the file of its address holds exactly its canonical bytes and
\* both callers hold the same Item.
C7_BenignConcurrentPut ==
    \A c, d \in Callers :
       ( /\ c # d
         /\ last[c].op = "put_obj" /\ last[c].res.ok /\ Untouched(c)
         /\ last[d].op = "put_obj" /\ last[d].res.ok /\ Untouched(d)
         /\ last[c].value = last[d].value )
       => /\ last[c].res.item = last[d].res.item
          /\ IsFile(PathOf(AddressOf(last[c].value)))
          /\ fs[PathOf(AddressOf(last[c].value))].data = to_jcs(last[c].value)

\* Addresses under which only put_obj stores.
DocumentAddresses == {AddressOf(v) : v \in Values} \ {i.hash_b64 : i \in RawItems}

\* C8 (as claimed): with no out-of-band change, a get_item of a document's
\* address finds no file (NotFound) or returns the complete Item, whatever
\* the puts in progress.
C8_AllOrNothingRead ==
    [][\A c \in Callers :
          ( /\ Returns(c) /\ last'[c].op = "get_item"
            /\ last'[c].addr \in DocumentAddresses
            /\ oob = 0 )
          => \/ last'[c].res.kind = "NotFound"
             \/ /\ last'[c].res.ok
                /\ \E v \in Values : last'[c].res.item = mk_item(v)]_vars

\* The file at address a holds the bytes the address is the hash of.
Complete(a) == IsFile(PathOf(a)) /\ b64sha256(fs[PathOf(a)].data) = a

\* C9 (as claimed): no step of the store deletes, truncates or changes a file
\* that holds its complete content, and no step of the store removes a file.
C9_AppendOnly ==
    [][oob' = oob =>
          /\ \A a \in Addresses :
                Complete(a) => (IsFile(PathOf(a))' /\ fs'[PathOf(a)] = fs[PathOf(a)])
          /\ DOMAIN fs \subseteq DOMAIN fs']_vars

\* C10: the Item put_obj returns is the same for structurally equal
\* documents whatever the store held when the call began: no file, the
\* file, or a file of other bytes at the address.
C10_Determinism ==
    \A c, d \in Callers :
       ( /\ last[c].op = "put_obj" /\ last[c].res.ok
         /\ last[d].op = "put_obj" /\ last[d].res.ok
         /\ ValueEq(last[c].value, last[d].value) )
       => /\ last[c].res.item = last[d].res.item
          /\ last[c].res.item.json_utf8 = to_jcs(last[d].value)

\* C10 witness: two put_obj of one document returned, one having found no
\* file and the other a file of bytes that are not the document's.
C10_Witness ==
    \E c, d \in Callers :
       /\ last[c].op = "put_obj" /\ last[c].res.ok /\ ~last[c].existed
       /\ last[d].op = "put_obj" /\ last[d].res.ok /\ last[d].existed
       /\ last[c].value = last[d].value
       /\ IsFile(PathOf(last[d].addr))
       /\ fs[PathOf(last[d].addr)].data # last[d].res.item.json_utf8

\* C11: Database::open on a path that exists and is no directory returns the
\* "File exists at DB Directory" error, no Database, and leaves the file
\* system as it is.
C11_OpenOnFile ==
    [][\A c \in Callers :
          ( /\ Returns(c) /\ last'[c].op = "open"
            /\ Exists(join(FsRoot, last'[c].addr))
            /\ ~IsDir(join(FsRoot, last'[c].addr)) )
          => /\ ~last'[c].res.ok
             /\ last'[c].res.kind = "PathConflict"
             /\ fs' = fs]_vars

\* C11 witness: open was refused on the regular file, which is still there.
C11_Witness ==
    \E c \in Callers :
       /\ last[c].op = "open" /\ last[c].addr = FileName
       /\ last[c].res.kind = "PathConflict"
       /\ IsFile(join(FsRoot, FileName))

\* C12: when Database::open returns a Database its path is a directory; an
\* absent path, not under a regular file, is made with its missing
\* ancestors and open succeeds; nothing that existed is changed, and nothing
\* at all when the path was a directory already.
C12_OpenEnsuresRoot ==
    [][\A c \in Callers :
          (Returns(c) /\ last'[c].op = "open") =>
             LET path == join(FsRoot, last'[c].addr)
             IN  /\ last'[c].res.ok =>
                       \A p \in Prefixes(path) : (p \in DOMAIN fs' /\ fs'[p].kind = "dir")
                 /\ (~Exists(path) /\ ~UnderFile(path)) =>
                       /\ last'[c].res.ok
                       /\ DOMAIN fs' = DOMAIN fs \cup Prefixes(path)
                 /\ \A p \in DOMAIN fs : (p \in DOMAIN fs' /\ fs'[p] = fs[p])
                 /\ IsDir(path) => (last'[c].res.ok /\ fs' = fs)]_vars

\* C12 witness: one caller opened the absent path, which is now a directory
\* in a new directory, and the other opened the database directory.
C12_Witness ==
    \E c, d \in Callers :
       /\ last[c].op = "open" /\ last[c].addr = NewName /\ last[c].res.ok
       /\ IsDir(join(FsRoot, NewName)) /\ IsDir(Parent(join(FsRoot, NewName)))
       /\ last[d].op = "open" /\ last[d].addr = DbName /\ last[d].res.ok

\* No put is at work on the store: every caller is idle and no write is with
\* the blocking pool.
Quiet == inflight = <<>> /\ \A c \in Callers : pc[c] = "idle"

\* C13 (as claimed): after a put was interrupted, and with no put at work
\* and no out-of-band change of the directory since it began, the file of its
\* address is absent or holds the complete bytes of the Item.
C13_InterruptedPut ==
    \A c \in Callers :
       ( /\ IsPut(last[c]) /\ last[c].res.kind = "Interrupted"
         /\ Untouched(c) /\ Quiet )
       => \/ ~Exists(PathOf(last[c].addr))
          \/ /\ IsFile(PathOf(last[c].addr))
             /\ fs[PathOf(last[c].addr)].data = last[c].item.json_utf8

\* The files of the database directory.
Stored == {p \in DOMAIN fs : Len(p) > 1 /\ Parent(p) = DbPath /\ fs[p].kind = "file"}

\* C14 (as claimed): when only put_item and put_obj calls ran, all are done
\* and their writes are in the files, every file of the database directory
\* is named by b64sha256 of its bytes.
C14_StoreContent ==
    (oob = 0 /\ Quiet) => \A p \in Stored : p[Len(p)] = b64sha256(fs[p].data)

\* C15: get_item and get_obj, whatever they return, leave every file and
\* every queued write as they are.
C15_ReadsChangeNothing ==
    [][\A c \in Callers :
          GetReturns(c) => (fs' = fs /\ inflight' = inflight /\ oob' = oob)]_vars

\* C15 witness: a get_item returned the "Invalid Hash" error and the file of
\* the address is still there, with bytes that do not hash to its name.
C15_Witness ==
    \E c \in Callers :
       /\ last[c].op = "get_item" /\ last[c].res.kind = "InvalidHash"
       /\ Untouched(c) /\ Quiet
       /\ IsFile(PathOf(last[c].addr)) /\ ~Complete(last[c].addr)
       /\ fs[PathOf(last[c].addr)].data # <<>>

\* The steps of the store's calls: not an out-of-band change, not open.
StoreStep == oob' = oob /\ \A c \in Callers : ~(Returns(c) /\ last'[c].op = "open")

\* C16 (as claimed): no address put_obj returns holds a '/'; every file a put
\* creates is a child of the database directory named by the address of the
\* Item put; a put writes to no file elsewhere; and what a get returns was
\* read from a child of the database directory.
C16_FlatLayout ==
    [][/\ \A c \in Callers :
             (Returns(c) /\ last'[c].op = "put_obj" /\ last'[c].res.ok) =>
                \A i \in 1..Len(last'[c].res.item.hash_b64) :
                   last'[c].res.item.hash_b64[i] # "/"
       /\ StoreStep =>
             /\ \A p \in DOMAIN fs' \ DOMAIN fs :
                   /\ Parent(p) = DbPath
                   /\ \E c \in Callers :
                         pc[c] = "create" /\ p = DbPath \o <<cur[c].item.hash_b64>>
             /\ \A p \in DOMAIN fs :
                   (p \in DOMAIN fs' /\ fs'[p] # fs[p]) => Parent(p) = DbPath
       /\ \A c \in Callers :
             (GetReturns(c) /\ last'[c].res.ok) =>
                Parent(PathOf(last'[c].addr)) = DbPath]_vars

\* The bytes are a JSON text.
ValidJson(data) == IsUtf8(data) /\ from_str(data).ok

====
